---- MODULE Spec2Model ----
(***************************************************************************)
(* Model of Solver (solver.py): the training orchestrator train(), the     *)
(* per-batch body of train_epoch(), evaluate_epoch(), test(),              *)
(* save_model() and load_model().                                          *)
(*                                                                         *)
(* LossDropout and LBTW live in model.py and the loaders in dataset.py;    *)
(* those are modelled from their description in the specification.         *)
(*                                                                         *)
(* Loss values are fixed-point numbers: the integer v stands for v / Den.  *)
(* Gradients and weights are abstracted to a gradient norm and a version   *)
(* number that every optimizer step increases.                             *)
(***************************************************************************)
EXTENDS Integers, Sequences, FiniteSets, TLC

\* ------------------------------------------------------------------ bounds
MaxEpochs == 2
MaxDevLoss == 2
MaxWrap == 1
MaxWeights == 3

\* ------------------------------------------------------- program constants
NTasks == 3
LogParts == 30

\* ------------------------------------------------------------ input sets
Alphas == {0, 1}
GradMaxNorms == {0, 1}
Devices == {"cpu", "cuda"}
\* <<len(train_loader.dataset), batch_size>>: one batch; two batches; thirty batches
SmallSizes == {<<1, 1>>, <<2, 1>>}
LongSizes == {<<30, 1>>}
\* per-task loss levels a batch can produce, and the gradient norms of its backward pass
SnliLevels == {1, 2}
StsbLevels == {0, 2}
QnliLevels == {1}
GradNorms == {2}
\* correct dev predictions an evaluation can count, out of a dev set of two
DevAccVals == {1, 2}
\* training sets of the runs whose metrics are followed: one batch; a full and a
\* partial batch; thirty full batches and a partial one
MeteredSmallSizes == {<<1, 1>>, <<3, 2>>}
MeteredLongSizes == {<<61, 2>>}

VARIABLES
    args,          \* the configuration object
    dataset_len,   \* len(self.train_loader.dataset)
    pc,            \* position in train() / test()
    err,           \* the exception that ended the run, "" when none
    epoch,         \* loop variable of train()
    batch_idx,     \* loop variable of train_epoch()
    mode,          \* self.model.training: "train" or "eval"
    weights,       \* version of the model weights
    wrap,          \* how many nn.DataParallel wrappers the live model has
    grad,          \* norm of the parameters' .grad buffers
    lbtw_initial,  \* reference losses held by self.lbtw, <<>> while unset
    best_loss, best_epoch,
    dev_loss,      \* dev loss of the current epoch
    ckpt,          \* the file at ckpt_path, <<>> while it does not exist
    devs,          \* dev loss of every epoch evaluated so far
    saves,         \* epochs at which save_model() ran
    trace,         \* calls made by train(), in order
    endWeights,    \* weights when train_epoch(e) returned, per epoch e
    testWeights,   \* weights evaluated by the final test(), -1 before it
    loads,         \* load_state_dict attempts made by load_model()
    batch,         \* what the last training batch did
    opt_steps,     \* optimizer.step() calls so far: the optimizer's state
    sched_steps,   \* scheduler.step() calls so far
    dev_acc,       \* dev accuracy of the current epoch (correct predictions)
    best_acc,
    accs,          \* dev accuracy of every epoch evaluated so far
    train_loss, example_count, correct,   \* running sums of train_epoch()
    train_ret,     \* what train_epoch() returned last, <<>> before
    metered        \* are accuracies and running sums followed in this run

vars == <<args, dataset_len, pc, err, epoch, batch_idx, mode, weights, wrap,
          grad, lbtw_initial, best_loss, best_epoch, dev_loss, ckpt, devs,
          saves, trace, endWeights, testWeights, loads, batch, opt_steps,
          sched_steps, dev_acc, best_acc, accs, train_loss, example_count,
          correct, train_ret, metered>>

optim == <<opt_steps, sched_steps>>
accv == <<dev_acc, best_acc, accs>>
sums == <<train_loss, example_count, correct>>

\* ------------------------------------------------------------- arithmetic
Min(a, b) == IF a < b THEN a ELSE b
Max(a, b) == IF a > b THEN a ELSE b

RECURSIVE Gcd(_, _)
Gcd(a, b) == IF b = 0 THEN a ELSE Gcd(b, a % b)

Lcm(a, b) == (a * b) \div Gcd(a, b)

RECURSIVE LcmOf(_)
LcmOf(S) == IF S = {} THEN 1 ELSE LET x == CHOOSE y \in S : TRUE IN Lcm(x, LcmOf(S \ {x}))

RECURSIVE Pow(_, _)
Pow(b, e) == IF e = 0 THEN 1 ELSE b * Pow(b, e - 1)

\* denominator of the fixed-point loss values
Den == LcmOf((SnliLevels \cup StsbLevels \cup QnliLevels) \ {0})

\* floats as compared by Python: numbers, +inf and NaN
Num(v) == [k |-> "num", v |-> v]
Inf == [k |-> "inf", v |-> 0]
NaN == [k |-> "nan", v |-> 0]
FloatLt(a, b) ==
    /\ a.k # "nan"
    /\ b.k # "nan"
    /\ \/ a.k = "num" /\ b.k = "inf"
       \/ a.k = "num" /\ b.k = "num" /\ a.v < b.v

DevLossVals == {Num(v) : v \in 1..MaxDevLoss} \cup {Inf, NaN}

\* ------------------------------------------------------- Solver.__init__
\* batches = len(train_loader.dataset) // args.batch_size ; log_interval = batches // 30
LogInterval(n, bs) == (n \div bs) \div LogParts

\* len(self.train_loader): batches of one pass over the training data
NumBatches(n, bs) == (n + bs - 1) \div bs

\* model = nn.DataParallel(model) when device == 'cuda'
InitialWrap(device) == IF device = "cuda" THEN 1 ELSE 0

\* nothing done yet: the record kept of the last training batch
NoBatch == [ops |-> <<>>, raw |-> <<>>, postDrop |-> <<>>, final |-> <<>>,
            loss |-> 0, drop |-> {}, dropIn |-> <<>>, lbtwIn |-> <<>>,
            schedArg |-> <<>>, g |-> 0, gradUsed |-> 0, steps |-> 0,
            lbtwBefore |-> <<>>, epoch |-> 0, batch_idx |-> 0,
            size |-> 0, correct |-> 0]

\* every configuration, on the training sets of one and two batches
SmallArgs ==
    [epochs : 0..MaxEpochs, multi_task : BOOLEAN, n_tasks_drop : 0..NTasks,
     alpha : Alphas, grad_max_norm : GradMaxNorms, warm_restart : BOOLEAN,
     batch_size : {s[2] : s \in SmallSizes}, device : Devices]

\* on the training set of thirty batches: no dropout, no clipping, no scheduler
LongArgs ==
    [epochs : {MaxEpochs}, multi_task : BOOLEAN, n_tasks_drop : {0},
     alpha : Alphas, grad_max_norm : {0}, warm_restart : {FALSE},
     batch_size : {s[2] : s \in LongSizes}, device : {"cpu"}]

\* what every run starts with besides its configuration
Fresh ==
    /\ opt_steps = 0
    /\ sched_steps = 0
    /\ dev_acc = 0
    /\ best_acc = 0
    /\ accs = <<>>
    /\ train_loss = 0
    /\ example_count = 0
    /\ correct = 0
    /\ train_ret = <<>>

Init ==
    /\ \/ \E a \in SmallArgs, s \in SmallSizes :
             a.batch_size = s[2] /\ args = a /\ dataset_len = s[1]
       \/ \E a \in LongArgs, s \in LongSizes :
             a.batch_size = s[2] /\ args = a /\ dataset_len = s[1]
    /\ wrap = InitialWrap(args.device)
    /\ metered = FALSE
    /\ Fresh
    /\ pc = "init"
    /\ err = ""
    /\ epoch = 0
    /\ batch_idx = 0
    /\ mode = "train"
    /\ weights = 0
    /\ grad = 0
    /\ lbtw_initial = <<>>
    /\ best_loss = Inf
    /\ best_epoch = 0
    /\ dev_loss = Inf
    /\ ckpt = <<>>
    /\ devs = <<>>
    /\ saves = <<>>
    /\ trace = <<>>
    /\ endWeights = <<>>
    /\ testWeights = -1
    /\ loads = 0
    /\ batch = NoBatch

\* ------------------------------------------------ model.py: LossDropout
\* the sets of positions LossDropout(n = k) may zero in one call
DropChoices(k) == {D \in SUBSET (1..NTasks) : Cardinality(D) = Min(k, NTasks)}

\* the tuple with the positions in D replaced by 0
LossDropout(losses, D) == [i \in 1..NTasks |-> IF i \in D THEN 0 ELSE losses[i]]

\* ------------------------------------------------------- model.py: LBTW
\* Uninitialized -> Active on the first call with batch_idx = 0
LBTWCapture(initial, losses, bidx) ==
    IF initial = <<>> /\ bidx = 0 THEN losses ELSE initial

\* w_i = (L_i / L0_i) ^ alpha, 1 when L0_i or L_i is 0; output w_i * L_i
LBTWWeighted(initial, losses, alpha) ==
    [i \in 1..NTasks |->
        IF initial = <<>> \/ initial[i] = 0 \/ losses[i] = 0
        THEN losses[i]
        ELSE (losses[i] * Pow(losses[i], alpha)) \div Pow(initial[i], alpha)]

\* ------------------------------------------------- train_epoch: one batch
\* mutant: the auxiliary losses are computed in single-task mode too
MutRawLossesAlways(multi_task) ==
    {<<a * Den, b * Den, c * Den>> :
        a \in SnliLevels, b \in StsbLevels \ {0}, c \in QnliLevels}

\* the loss tuples lines 172-175 can build
RawLosses(multi_task) ==
    {<<a * Den, IF multi_task THEN b * Den ELSE 0, IF multi_task THEN c * Den ELSE 0>> :
        a \in SnliLevels, b \in StsbLevels, c \in QnliLevels}

\* mutant: a drop count of 1 does not reach the dropout
MutUseDropoutAboveOne(a) == a.n_tasks_drop > 1

\* line 180: is the tuple handed to self.loss_dropout
UseDropout(a) == a.n_tasks_drop > 0

\* mutant: the warm-up epoch is not excluded
MutUseLBTWAnyEpoch(a, ep) == a.alpha # 0

\* mutant: the warm-up test is off by one
MutUseLBTWFromFirst(a, ep) == a.alpha # 0 /\ ep > 0

\* line 182: is the tuple handed to self.lbtw
UseLBTW(a, ep) == a.alpha # 0 /\ ep > 1

\* line 186: is clip_grad_norm_ called
UseClip(a) == a.grad_max_norm > 0

\* mutant: the gradients are cleared after backpropagation
MutBatchOpsZeroLate(a, ep) ==
    (IF a.warm_restart THEN <<"scheduler.step">> ELSE <<>>)
    \o (IF a.n_tasks_drop > 0 THEN <<"loss_dropout">> ELSE <<>>)
    \o (IF a.alpha # 0 /\ ep > 1 THEN <<"lbtw">> ELSE <<>>)
    \o <<"sum">>
    \o (IF a.grad_max_norm > 0 THEN <<"clip_grad_norm_">> ELSE <<>>)
    \o <<"backward", "zero_grad", "optimizer.step">>

\* lines 177-196: the calls of one batch, in program order
BatchOps(a, ep) ==
    (IF a.warm_restart THEN <<"scheduler.step">> ELSE <<>>)
    \o <<"zero_grad">>
    \o (IF UseDropout(a) THEN <<"loss_dropout">> ELSE <<>>)
    \o (IF UseLBTW(a, ep) THEN <<"lbtw">> ELSE <<>>)
    \o <<"sum">>
    \o (IF UseClip(a) THEN <<"clip_grad_norm_">> ELSE <<>>)
    \o <<"backward", "optimizer.step">>

\* the effect of one call on the state of the batch; in: the batch's inputs
Exec(op, s, in) ==
    CASE op = "scheduler.step" ->
            [s EXCEPT !.schedArg = <<in.epoch * in.nb + in.batch_idx, in.nb>>]
      [] op = "zero_grad" ->
            [s EXCEPT !.grad = 0]
      [] op = "loss_dropout" ->
            [s EXCEPT !.losses = LossDropout(s.losses, in.drop),
                      !.postDrop = LossDropout(s.losses, in.drop),
                      !.dropIn = Append(s.dropIn, s.losses)]
      [] op = "lbtw" ->
            [s EXCEPT !.lbtw = LBTWCapture(s.lbtw, s.losses, 0),
                      !.losses = LBTWWeighted(LBTWCapture(s.lbtw, s.losses, 0),
                                              s.losses, in.alpha),
                      !.lbtwIn = Append(s.lbtwIn, s.losses)]
      [] op = "sum" ->
            [s EXCEPT !.final = s.losses,
                      !.loss = s.losses[1] + s.losses[2] + s.losses[3]]
      [] op = "clip_grad_norm_" ->
            [s EXCEPT !.grad = Min(s.grad, in.max_norm)]
      [] op = "backward" ->
            [s EXCEPT !.grad = s.grad + in.g]
      [] op = "optimizer.step" ->
            [s EXCEPT !.gradUsed = s.grad,
                      !.weights = s.weights + 1,
                      !.steps = s.steps + 1]

RECURSIVE RunOps(_, _, _)
RunOps(ops, s, in) ==
    IF ops = <<>> THEN s ELSE RunOps(Tail(ops), Exec(Head(ops), s, in), in)

\* line 205: the cadence test; "raise" stands for ZeroDivisionError
LogCheck(bidx, log_interval) ==
    IF bidx = 0 THEN "log"
    ELSE IF log_interval = 0 THEN "raise"
    ELSE IF (bidx + 1) % log_interval = 0 \/ bidx + 1 = log_interval THEN "log"
    ELSE "skip"

\* snli_token_ids.shape[0] of batch bidx: the last batch holds what is left
BatchSizeAt(n, bs, bidx) == Min(bs, n - bidx * bs)

\* the correct predictions a batch can count: none or all of them
CorrectChoices(m, size) == IF m THEN {0, size} ELSE {0}

\* line 199: the weight of a batch's loss in the running loss
BatchWeight(size) == size

\* mutant: the sums are divided by the number of batches
MutTrainDivisorBatches(n, bs) == (n + bs - 1) \div bs

\* lines 216-217: what the sums are divided by
TrainDivisor(n, bs) == n

\* lines 216-219: the returned loss and accuracy, each as <<numerator, denominator>>
EpochResult(tl, c, d) == [loss |-> <<tl, d>>, acc |-> <<c, d>>]

\* ---------------------------------------------------------------- train()
\* lines 86-93
TrainBegin ==
    /\ pc = "init"
    /\ best_loss' = Inf
    /\ best_acc' = 0
    /\ best_epoch' = 0
    /\ IF args.epochs >= 1
       THEN epoch' = 1 /\ pc' = "train_epoch"
       ELSE epoch' = epoch /\ pc' = "test"
    /\ UNCHANGED <<args, dataset_len, err, batch_idx, mode, weights, wrap, grad,
                   lbtw_initial, dev_loss, ckpt, devs, saves, trace, endWeights,
                   testWeights, loads, batch, optim, dev_acc, accs, sums,
                   train_ret, metered>>

\* lines 97, 149-153: train_epoch(epoch) is entered
TrainEpochBegin ==
    /\ pc = "train_epoch"
    /\ mode' = "train"
    /\ batch_idx' = 0
    /\ trace' = Append(trace, "train_epoch")
    /\ pc' = "batch"
    /\ train_loss' = 0
    /\ example_count' = 0
    /\ correct' = 0
    /\ UNCHANGED <<args, dataset_len, err, epoch, weights, wrap, grad, lbtw_initial,
                   best_loss, best_epoch, dev_loss, ckpt, devs, saves, endWeights,
                   testWeights, loads, batch, optim, accv, train_ret, metered>>

\* lines 154-219: one iteration of the batch loop, and the return after the last
TrainBatch ==
    /\ pc = "batch"
    /\ \E raw \in RawLosses(args.multi_task),
          D \in DropChoices(args.n_tasks_drop),
          g \in GradNorms,
          c \in CorrectChoices(metered,
                               BatchSizeAt(dataset_len, args.batch_size, batch_idx)) :
         LET nb == NumBatches(dataset_len, args.batch_size)
             size == BatchSizeAt(dataset_len, args.batch_size, batch_idx)
             in == [drop |-> D, g |-> g, epoch |-> epoch, batch_idx |-> batch_idx,
                    nb |-> nb, alpha |-> args.alpha, max_norm |-> args.grad_max_norm]
             s0 == [losses |-> raw, postDrop |-> raw, final |-> <<>>, loss |-> 0,
                    grad |-> grad, lbtw |-> lbtw_initial, weights |-> weights,
                    gradUsed |-> 0, steps |-> 0, schedArg |-> <<>>,
                    dropIn |-> <<>>, lbtwIn |-> <<>>]
             ops == BatchOps(args, epoch)
             s == RunOps(ops, s0, in)
             log == LogCheck(batch_idx, LogInterval(dataset_len, args.batch_size))
             tl == IF metered THEN train_loss + BatchWeight(size) * s.loss ELSE train_loss
             ec == IF metered THEN example_count + size ELSE example_count
             co == IF metered THEN correct + c ELSE correct
         IN  /\ batch' = [ops |-> ops, raw |-> raw, postDrop |-> s.postDrop,
                          final |-> s.final, loss |-> s.loss,
                          drop |-> IF s.dropIn # <<>> THEN D ELSE {},
                          dropIn |-> s.dropIn, lbtwIn |-> s.lbtwIn,
                          schedArg |-> s.schedArg, g |-> g, gradUsed |-> s.gradUsed,
                          steps |-> s.steps, lbtwBefore |-> lbtw_initial,
                          epoch |-> epoch, batch_idx |-> batch_idx,
                          size |-> size, correct |-> c]
             /\ train_loss' = tl
             /\ example_count' = ec
             /\ correct' = co
             /\ opt_steps' = opt_steps + s.steps
             /\ sched_steps' = sched_steps + (IF s.schedArg # <<>> THEN 1 ELSE 0)
             /\ grad' = s.grad
             /\ weights' = s.weights
             /\ lbtw_initial' = s.lbtw
             /\ IF log = "raise"
                THEN /\ pc' = "crashed"
                     /\ err' = "ZeroDivisionError"
                     /\ UNCHANGED <<batch_idx, endWeights, train_ret>>
                ELSE IF batch_idx + 1 < nb
                THEN /\ batch_idx' = batch_idx + 1
                     /\ UNCHANGED <<pc, err, endWeights, train_ret>>
                ELSE /\ endWeights' = Append(endWeights, s.weights)
                     /\ train_ret' = IF metered
                                      THEN EpochResult(tl, co,
                                               TrainDivisor(dataset_len, args.batch_size))
                                      ELSE train_ret
                     /\ pc' = "eval_dev"
                     /\ UNCHANGED <<batch_idx, err>>
    /\ UNCHANGED <<args, dataset_len, epoch, mode, wrap, best_loss, best_epoch,
                   dev_loss, ckpt, devs, saves, trace, testWeights, loads, accv,
                   metered>>

\* mutant: evaluate_epoch leaves the model in the mode it found
MutModeKept(m) == m

\* line 223: self.model.eval()
ModeAfterEvaluate(m) == "eval"

\* the accuracies an evaluation can report
EvalAccs(m) == IF m THEN DevAccVals ELSE {0}

\* lines 98, 221-240: evaluate_epoch('Dev')
EvaluateDev ==
    /\ pc = "eval_dev"
    /\ mode' = ModeAfterEvaluate(mode)
    /\ \E l \in DevLossVals : dev_loss' = l /\ devs' = Append(devs, l)
    /\ \E a \in EvalAccs(metered) : dev_acc' = a /\ accs' = Append(accs, a)
    /\ trace' = Append(trace, "eval_dev")
    /\ batch' = NoBatch
    /\ pc' = "eval_test"
    /\ UNCHANGED <<args, dataset_len, err, epoch, batch_idx, weights, wrap, grad,
                   lbtw_initial, best_loss, best_epoch, ckpt, saves, endWeights,
                   testWeights, loads, optim, best_acc, sums, train_ret, metered>>

\* lines 99, 221-240: evaluate_epoch('Test') inside the epoch loop
EvaluateTest ==
    /\ pc = "eval_test"
    /\ mode' = ModeAfterEvaluate(mode)
    /\ trace' = Append(trace, "eval_test")
    /\ pc' = "select"
    /\ UNCHANGED <<args, dataset_len, err, epoch, batch_idx, weights, wrap, grad,
                   lbtw_initial, best_loss, best_epoch, dev_loss, ckpt, devs, saves,
                   endWeights, testWeights, loads, batch, optim, accv, sums,
                   train_ret, metered>>

\* mutant: an equal dev loss replaces the best one too
MutImprovedOrEqual(dl, bl) == FloatLt(dl, bl) \/ dl = bl

\* line 101: does this epoch's dev loss replace the best one
Improved(dl, bl) == FloatLt(dl, bl)

\* mutant: the loop stops early once an epoch did not improve the dev loss
MutMoreEpochsWhileImproving(e, n) == e < n /\ best_epoch = e

\* line 94: does the loop run another epoch after epoch e
MoreEpochs(e, n) == e < n

\* mutant: the best accuracy is the largest one seen
MutNewBestAccMax(da, ba) == Max(da, ba)

\* line 103: the best accuracy after an epoch that improved the dev loss
NewBestAcc(da, ba) == da

\* lines 242-249: the bundle torch.save writes
SavedBundle(w, wr) == [state_dict |-> w, wrap |-> wr]

\* lines 101-105 and the loop back to line 94 or on to line 137
Select ==
    /\ pc = "select"
    /\ trace' = Append(trace, "select")
    /\ IF Improved(dev_loss, best_loss)
       THEN /\ best_loss' = dev_loss
            /\ best_acc' = NewBestAcc(dev_acc, best_acc)
            /\ best_epoch' = epoch
            /\ ckpt' = SavedBundle(weights, wrap)
            /\ saves' = Append(saves, epoch)
       ELSE UNCHANGED <<best_loss, best_acc, best_epoch, ckpt, saves>>
    /\ IF MoreEpochs(epoch, args.epochs)
       THEN epoch' = epoch + 1 /\ pc' = "train_epoch"
       ELSE epoch' = epoch /\ pc' = "test"
    /\ UNCHANGED <<args, dataset_len, err, batch_idx, mode, weights, wrap, grad,
                   lbtw_initial, dev_loss, devs, endWeights, testWeights, loads,
                   batch, optim, dev_acc, accs, sums, train_ret, metered>>

\* ----------------------------------------------------------- load_model()
\* load_state_dict is strict: the keys match when the wrapper depths agree
KeysMatch(c, wr) == c.wrap = wr

\* mutant: the checkpoint is read but its weights are not installed
MutLoadKeepsWeights(c, w, wr) ==
    IF c = <<>>
    THEN [ok |-> FALSE, err |-> "FileNotFoundError", weights |-> w, wrap |-> wr,
          loads |-> 0]
    ELSE [ok |-> TRUE, err |-> "", weights |-> w, wrap |-> wr, loads |-> 1]

\* mutant: no fallback, the first failure propagates
MutLoadNoRetry(c, w, wr) ==
    IF c = <<>>
    THEN [ok |-> FALSE, err |-> "FileNotFoundError", weights |-> w, wrap |-> wr,
          loads |-> 0]
    ELSE IF KeysMatch(c, wr)
    THEN [ok |-> TRUE, err |-> "", weights |-> c.state_dict, wrap |-> wr, loads |-> 1]
    ELSE [ok |-> FALSE, err |-> "RuntimeError", weights |-> w, wrap |-> wr, loads |-> 1]

\* lines 253-261: the outcome of load_model on bundle c (<<>>: no file)
\* for a live model with weights w under wr wrappers
LoadModel(c, w, wr) ==
    IF c = <<>>
    THEN [ok |-> FALSE, err |-> "FileNotFoundError", weights |-> w, wrap |-> wr,
          loads |-> 0]
    ELSE IF KeysMatch(c, wr)
    THEN [ok |-> TRUE, err |-> "", weights |-> c.state_dict, wrap |-> wr, loads |-> 1]
    ELSE IF KeysMatch(c, wr + 1)
    THEN [ok |-> TRUE, err |-> "", weights |-> c.state_dict, wrap |-> wr + 1,
          loads |-> 2]
    ELSE [ok |-> FALSE, err |-> "RuntimeError", weights |-> w, wrap |-> wr + 1,
          loads |-> 2]

\* lines 137-141: test() is called and loads the checkpoint
Test ==
    /\ pc = "test"
    /\ trace' = Append(trace, "test")
    /\ LET r == LoadModel(ckpt, weights, wrap)
       IN  /\ weights' = r.weights
           /\ wrap' = r.wrap
           /\ loads' = r.loads
           /\ err' = r.err
           /\ pc' = IF r.ok THEN "test_eval" ELSE "crashed"
    /\ UNCHANGED <<args, dataset_len, epoch, batch_idx, mode, grad, lbtw_initial,
                   best_loss, best_epoch, dev_loss, ckpt, devs, saves, endWeights,
                   testWeights, batch, optim, accv, sums, train_ret, metered>>

\* lines 143-146: the final evaluate_epoch('Test')
TestEvaluate ==
    /\ pc = "test_eval"
    /\ mode' = ModeAfterEvaluate(mode)
    /\ testWeights' = weights
    /\ pc' = "done"
    /\ UNCHANGED <<args, dataset_len, err, epoch, batch_idx, weights, wrap, grad,
                   lbtw_initial, best_loss, best_epoch, dev_loss, ckpt, devs, saves,
                   trace, endWeights, loads, batch, optim, accv, sums, train_ret,
                   metered>>

Next ==
    \/ TrainBegin
    \/ TrainEpochBegin
    \/ TrainBatch
    \/ EvaluateDev
    \/ EvaluateTest
    \/ Select
    \/ Test
    \/ TestEvaluate

Spec == Init /\ [][Next]_vars

\* --------------------------------------------- load_model() on its own
\* the configuration of the runs that only load: nothing is trained
LoadArgs ==
    [epochs |-> 0, multi_task |-> FALSE, n_tasks_drop |-> 0, alpha |-> 0,
     grad_max_norm |-> 0, warm_restart |-> FALSE, batch_size |-> 1, device |-> "cpu"]

\* test() called on a solver whose checkpoint path holds any bundle, or nothing
InitLoad ==
    /\ args = LoadArgs
    /\ metered = FALSE
    /\ Fresh
    /\ dataset_len = 1
    /\ pc = "test"
    /\ err = ""
    /\ epoch = 0
    /\ batch_idx = 0
    /\ mode = "train"
    /\ weights \in 0..MaxWeights
    /\ wrap \in 0..MaxWrap
    /\ grad = 0
    /\ lbtw_initial = <<>>
    /\ best_loss = Inf
    /\ best_epoch = 0
    /\ dev_loss = Inf
    /\ ckpt \in {<<>>} \cup {SavedBundle(w, wr) : w \in 0..MaxWeights, wr \in 0..MaxWrap}
    /\ devs = <<>>
    /\ saves = <<>>
    /\ trace = <<>>
    /\ endWeights = <<>>
    /\ testWeights = -1
    /\ loads = 0
    /\ batch = NoBatch

NextLoad ==
    \/ Test
    \/ TestEvaluate

SpecLoad == InitLoad /\ [][NextLoad]_vars

\* ------------------------------------- runs whose metrics are followed
\* no dropout, LBTW, clipping or scheduler; every epoch count on the small sets
MeteredSmallArgs ==
    [epochs : 0..MaxEpochs, multi_task : BOOLEAN, n_tasks_drop : {0},
     alpha : {0}, grad_max_norm : {0}, warm_restart : {FALSE},
     batch_size : {s[2] : s \in MeteredSmallSizes}, device : {"cpu"}]

\* one epoch in single-task mode on the long set
MeteredLongArgs ==
    [epochs : {1}, multi_task : {FALSE}, n_tasks_drop : {0},
     alpha : {0}, grad_max_norm : {0}, warm_restart : {FALSE},
     batch_size : {s[2] : s \in MeteredLongSizes}, device : {"cpu"}]

InitMetered ==
    /\ \/ \E a \in MeteredSmallArgs, s \in MeteredSmallSizes :
             a.batch_size = s[2] /\ args = a /\ dataset_len = s[1]
       \/ \E a \in MeteredLongArgs, s \in MeteredLongSizes :
             a.batch_size = s[2] /\ args = a /\ dataset_len = s[1]
    /\ wrap = InitialWrap(args.device)
    /\ metered = TRUE
    /\ Fresh
    /\ pc = "init"
    /\ err = ""
    /\ epoch = 0
    /\ batch_idx = 0
    /\ mode = "train"
    /\ weights = 0
    /\ grad = 0
    /\ lbtw_initial = <<>>
    /\ best_loss = Inf
    /\ best_epoch = 0
    /\ dev_loss = Inf
    /\ ckpt = <<>>
    /\ devs = <<>>
    /\ saves = <<>>
    /\ trace = <<>>
    /\ endWeights = <<>>
    /\ testWeights = -1
    /\ loads = 0
    /\ batch = NoBatch

SpecMetered == InitMetered /\ [][Next]_vars

\* =================================================================== claims
Range(s) == {s[i] : i \in DOMAIN s}
Count(s, x) == Cardinality({i \in DOMAIN s : s[i] = x})
\* the first position of x in s, 0 when absent
Pos(s, x) == IF x \in Range(s) THEN CHOOSE i \in DOMAIN s : s[i] = x /\ \A j \in 1..(i - 1) : s[j] # x
             ELSE 0
Zeros(l) == Cardinality({i \in DOMAIN l : l[i] = 0})
\* a training batch has just run
BatchDone == batch.ops # <<>>
\* epochs whose model-selection decision has been taken
Selected == Count(trace, "select")

\* the dev loss of epoch e is a number below every earlier dev loss and below +inf
StrictlyBest(e) ==
    /\ FloatLt(devs[e], Inf)
    /\ \A j \in 1..(e - 1) : devs[j].k # "nan" => FloatLt(devs[e], devs[j])

C2_TestUsesBestEpochWeights ==
    testWeights # -1 =>
        /\ best_epoch \in 1..Len(endWeights)
        /\ testWeights = endWeights[best_epoch]
        /\ ckpt.state_dict = testWeights

\* the last epoch was not the best one, and its weights were not the ones tested
C2_Witness ==
    /\ pc = "done"
    /\ args.epochs = 2
    /\ best_epoch = 1
    /\ testWeights = endWeights[1]
    /\ testWeights # endWeights[2]

C4_LBTWOnlyAfterWarmup ==
    BatchDone =>
        /\ ("lbtw" \in Range(batch.ops)) <=> (args.alpha # 0 /\ batch.epoch > 1)
        /\ Len(batch.lbtwIn) = Count(batch.ops, "lbtw")
        /\ Count(batch.ops, "lbtw") <= 1
        /\ batch.lbtwIn # <<>> => batch.lbtwIn[1] = batch.postDrop
        /\ (batch.epoch = 1 \/ args.alpha = 0) =>
              /\ batch.final = batch.postDrop
              /\ batch.loss = batch.postDrop[1] + batch.postDrop[2] + batch.postDrop[3]

\* epoch 1 with alpha # 0 and a dropped task: the sum is over the dropout's output
C4_Witness ==
    /\ BatchDone
    /\ batch.epoch = 1
    /\ args.alpha # 0
    /\ batch.drop # {}
    /\ batch.final = batch.postDrop
    /\ batch.loss > 0

\* LBTW, applied in epoch 2, changed what is summed
C4_WitnessApplied ==
    /\ BatchDone
    /\ batch.epoch = 2
    /\ batch.final # batch.postDrop

\* C5 (as claimed): with grad_max_norm > 0 clipping comes after the batch's
\* backpropagation and before the optimizer step, so the gradient the optimizer
\* consumes is the batch's own, with norm at most grad_max_norm.
C5_ClipAfterBackward ==
    (BatchDone /\ args.grad_max_norm > 0) =>
        /\ Pos(batch.ops, "backward") < Pos(batch.ops, "clip_grad_norm_")
        /\ Pos(batch.ops, "clip_grad_norm_") < Pos(batch.ops, "optimizer.step")
        /\ batch.gradUsed <= args.grad_max_norm

\* C6 (as claimed): in single-task mode the STS-B and QNLI entries are 0 and
\* are not among the positions Selective Dropout may drop.
C6_AuxiliaryExcluded ==
    (BatchDone /\ ~args.multi_task) =>
        /\ batch.raw[2] = 0 /\ batch.raw[3] = 0
        /\ batch.drop \cap {2, 3} = {}

\* C6 (amended): in single-task mode the STS-B and QNLI entries are 0 when the
\* tuple is built and 0 when it is summed; the whole tuple, those entries
\* included, is what Selective Dropout (n_tasks_drop > 0) and LBTW (alpha # 0,
\* epoch > 1) receive.
C6_AuxiliaryStayZero ==
    (BatchDone /\ ~args.multi_task) =>
        /\ batch.raw[2] = 0 /\ batch.raw[3] = 0
        /\ batch.postDrop[2] = 0 /\ batch.postDrop[3] = 0
        /\ batch.final[2] = 0 /\ batch.final[3] = 0
        /\ batch.loss = batch.final[1]
        /\ args.n_tasks_drop > 0 => batch.dropIn = <<batch.raw>>
        /\ (args.alpha # 0 /\ batch.epoch > 1) => batch.lbtwIn = <<batch.postDrop>>

\* single-task mode, drop count 1: the dropout chose the STS-B slot, SNLI is kept
C6_Witness ==
    /\ BatchDone
    /\ ~args.multi_task
    /\ args.n_tasks_drop = 1
    /\ batch.drop = {2}
    /\ batch.final[1] # 0
    /\ batch.lbtwIn # <<>>

C7_WitnessNonZero ==
    /\ BatchDone
    /\ args.multi_task
    /\ args.n_tasks_drop = 2
    /\ Zeros(batch.raw) = 0
    /\ Zeros(batch.postDrop) = 2

\* load_model() has run; the wrapper depth the live model had when it started
Loaded == "test" \in Range(trace)
WrapBefore == IF loads = 2 THEN wrap - 1 ELSE wrap

\* C8 (as claimed): when checkpoint and live model differ by one wrapper, in
\* either direction, the load succeeds on the single retry.
C8_EitherDirectionLoads ==
    (Loaded /\ ckpt # <<>> /\ (ckpt.wrap = WrapBefore + 1 \/ ckpt.wrap + 1 = WrapBefore)) =>
        /\ pc # "crashed"
        /\ loads = 2

\* C8 (amended): a checkpoint saved with one wrapper more than the live model
\* loads on the single retry, after the live model is wrapped once; a checkpoint
\* saved with fewer wrappers than the live model fails twice and the error
\* propagates; with equal depth the first attempt succeeds.
C8_WrappedIntoUnwrappedLoads ==
    (Loaded /\ ckpt # <<>>) =>
        /\ loads \in 1..2
        /\ ckpt.wrap = WrapBefore =>
              pc # "crashed" /\ loads = 1 /\ wrap = WrapBefore
        /\ ckpt.wrap = WrapBefore + 1 =>
              pc # "crashed" /\ loads = 2 /\ wrap = WrapBefore + 1
        /\ ckpt.wrap < WrapBefore =>
              pc = "crashed" /\ err = "RuntimeError" /\ loads = 2
        /\ pc # "crashed" => weights = ckpt.state_dict /\ err = ""

\* a wrapped checkpoint went into an unwrapped model on the retry
C8_Witness ==
    /\ Loaded
    /\ ckpt # <<>>
    /\ ckpt.wrap = 1
    /\ wrap = 1
    /\ loads = 2
    /\ pc = "test_eval"
    /\ weights = ckpt.state_dict

\* the calls train() makes with n epochs configured
RECURSIVE ExpectedTrace(_)
ExpectedTrace(n) ==
    IF n = 0 THEN <<"test">>
    ELSE <<"train_epoch", "eval_dev", "eval_test", "select">> \o ExpectedTrace(n - 1)

IsPrefix(s, u) == Len(s) <= Len(u) /\ \A i \in DOMAIN s : s[i] = u[i]

\* C9: train() calls, per epoch, train_epoch, evaluate_epoch on dev,
\* evaluate_epoch on test and the selection, for every configured epoch whatever
\* the dev losses, and calls test() once, after the last epoch.
C9_AllEpochsThenTest ==
    /\ IsPrefix(trace, ExpectedTrace(args.epochs))
    /\ Count(trace, "test") <= 1
    /\ Loaded => /\ trace = ExpectedTrace(args.epochs)
                 /\ Selected = args.epochs
                 /\ Len(devs) = args.epochs
    /\ pc = "test" => Selected = args.epochs

\* all epochs ran although the dev loss never improved after epoch 1
C9_Witness ==
    /\ pc = "done"
    /\ args.epochs = 2
    /\ best_epoch = 1
    /\ Count(trace, "train_epoch") = 2
    /\ Count(trace, "test") = 1

\* C10: in every batch the scheduler step (when configured, with argument
\* epoch + batch_idx / total_batches) precedes zero_grad, zero_grad precedes
\* backward, dropout precedes LBTW, both precede the sum, the sum precedes
\* backward, backward precedes the optimizer step, and there is one optimizer step.
C10_BatchOrder ==
    BatchDone =>
        LET o == batch.ops
            nb == NumBatches(dataset_len, args.batch_size)
        IN  /\ ("scheduler.step" \in Range(o)) <=> args.warm_restart
            /\ args.warm_restart =>
                  /\ Pos(o, "scheduler.step") < Pos(o, "zero_grad")
                  /\ batch.schedArg = <<batch.epoch * nb + batch.batch_idx, nb>>
            /\ Count(o, "zero_grad") = 1
            /\ Pos(o, "zero_grad") < Pos(o, "backward")
            /\ ("loss_dropout" \in Range(o)) <=> (args.n_tasks_drop > 0)
            /\ ("loss_dropout" \in Range(o) /\ "lbtw" \in Range(o)) =>
                  Pos(o, "loss_dropout") < Pos(o, "lbtw")
            /\ \A x \in {"loss_dropout", "lbtw"} : Pos(o, x) < Pos(o, "sum")
            /\ Count(o, "sum") = 1
            /\ Pos(o, "sum") < Pos(o, "backward")
            /\ Count(o, "backward") = 1
            /\ Pos(o, "backward") < Pos(o, "optimizer.step")
            /\ Count(o, "optimizer.step") = 1
            /\ batch.steps = 1

\* a batch with scheduler, dropout, LBTW and clipping all in play
C10_Witness ==
    /\ BatchDone
    /\ batch.ops = <<"scheduler.step", "zero_grad", "loss_dropout", "lbtw", "sum",
                     "clip_grad_norm_", "backward", "optimizer.step">>
    /\ batch.schedArg = <<2, 1>>

\* C12: on every training set with at least one batch, also one of fewer than
\* thirty batches, train_epoch gets through every batch: the cadence check of
\* line 205 never raises.
C12_CadenceNeverRaises == err # "ZeroDivisionError"

\* C13: whenever train() gets to its final test(), for every epoch count and
\* every sequence of dev losses, a checkpoint was written during the run.
C13_CheckpointBeforeTest == (pc = "test" \/ Loaded) => saves # <<>>

\* the steps in which evaluate_epoch runs
Evaluating == pc \in {"eval_dev", "eval_test", "test_eval"}

\* C11: evaluate_epoch has no side effect on the training state: it leaves the
\* weights, the model's train/eval mode, the optimizer state, the LBTW reference
\* losses, the best loss, accuracy and epoch and the checkpoint as they were,
\* and makes no optimizer or scheduler step.
C11_EvaluateLeavesTrainingState ==
    [][Evaluating =>
         UNCHANGED <<weights, mode, opt_steps, sched_steps, lbtw_initial,
                     best_loss, best_acc, best_epoch, ckpt>>]_vars

\* C11, amended: evaluate_epoch leaves all of these but the mode as they were,
\* and leaves the model in eval mode, whatever mode it found.
C11_EvaluateOnlySetsEvalMode ==
    [][Evaluating =>
         /\ UNCHANGED <<weights, opt_steps, sched_steps, lbtw_initial,
                        best_loss, best_acc, best_epoch, ckpt>>
         /\ mode' = "eval"]_vars

\* the dev evaluation of epoch 2 ran on a model that was in train mode, after
\* optimizer and scheduler steps, a captured LBTW reference and a checkpoint
C11_Witness ==
    /\ pc = "eval_test"
    /\ epoch = 2
    /\ mode = "eval"
    /\ opt_steps > 0
    /\ sched_steps > 0
    /\ lbtw_initial # <<>>
    /\ ckpt # <<>>

\* the epochs completed so far: each was evaluated and went through the
\* comparison of lines 101-105
EpochsDone == 1..Selected
AtEpochEnd == Selected >= 1 /\ Len(devs) = Selected

\* C14: at the end of every epoch best_loss is the minimum dev loss of the
\* epochs completed so far, best_epoch is the earliest epoch that attained it,
\* with 1 <= best_epoch <= current epoch, and best_acc is the dev accuracy
\* measured in best_epoch.
C14_BestIsMinimumOfAll ==
    AtEpochEnd =>
        /\ best_epoch \in EpochsDone
        /\ best_loss = devs[best_epoch]
        /\ \A i \in EpochsDone : ~FloatLt(devs[i], best_loss)
        /\ \A i \in 1..(best_epoch - 1) : devs[i] # best_loss
        /\ best_acc = accs[best_epoch]

\* the completed epochs whose dev loss is a number below +inf
BelowInf == {i \in EpochsDone : FloatLt(devs[i], Inf)}

BestAtEpochEnd ==
    AtEpochEnd =>
        IF BelowInf = {}
        THEN best_loss = Inf /\ best_epoch = 0 /\ best_acc = 0
        ELSE /\ best_epoch \in BelowInf
             /\ best_loss = devs[best_epoch]
             /\ \A i \in BelowInf : ~FloatLt(devs[i], best_loss)
             /\ \A i \in 1..(best_epoch - 1) : devs[i] # best_loss
             /\ best_acc = accs[best_epoch]

\* C14, amended: at the end of every epoch, while no completed epoch had a dev
\* loss below +inf, best_loss is +inf, best_epoch is 0 and best_acc is 0;
\* otherwise best_loss is the minimum over the completed epochs whose dev loss
\* is below +inf, best_epoch is the earliest epoch that attained it and best_acc
\* is the dev accuracy measured in that epoch. best_loss never increases.
C14_BestIsMinimumBelowInf ==
    /\ []BestAtEpochEnd
    /\ [][~FloatLt(best_loss, best_loss')]_vars

\* epoch 2 improved the dev loss with a lower accuracy than epoch 1 had
C14_Witness ==
    /\ AtEpochEnd
    /\ Selected = 2
    /\ devs = <<Num(2), Num(1)>>
    /\ accs = <<2, 1>>
    /\ best_epoch = 2
    /\ best_acc = 1

\* a batch of a run whose metrics are followed adds its size times its loss,
\* its size and its correct predictions to the running sums
BatchAccumulates ==
    pc = "batch" =>
        /\ train_loss' = train_loss + batch'.size * batch'.loss
        /\ example_count' = example_count + batch'.size
        /\ correct' = correct + batch'.correct
        /\ batch'.size >= 1
        /\ batch'.correct \in 0..batch'.size

\* train_epoch has just returned
Returned == pc = "eval_dev" /\ train_ret # <<>>

\* what train_epoch returns is the sums over the examples it processed
ReturnsAverages ==
    Returned =>
        /\ example_count >= 1
        /\ train_ret.loss = <<train_loss, example_count>>
        /\ train_ret.acc = <<correct, example_count>>
        /\ correct \in 0..example_count

====
